---- MODULE Spec2Model ----
(***************************************************************************)
(* A model of the admin panel in src/src/App.js.                           *)
(*                                                                         *)
(* Part 1: the session holder (AuthProvider, AppContent, LoginPage).       *)
(* Part 2: the list routines of the product form (merge, reorder, submit   *)
(*         normalization), applied to inputs drawn from bounded sets.      *)
(* Part 3: the image list editor of the product form (ProductForm).        *)
(* Part 4: a list view with its modal form (ProductsView, CategoriesView). *)
(* Part 5: the exchange-rate tables (SettingsView, ProductForm).           *)
(*                                                                         *)
(* React runs a handler to its next await, then commits the render of the  *)
(* state it set and runs the effects whose dependencies changed; one       *)
(* action of the model is one such run (handler segment, render, effect).  *)
(* JavaScript array positions are 0-based and kept 0-based in the state;   *)
(* At, Splice and the other list helpers convert.                          *)
(***************************************************************************)
EXTENDS Integers, Sequences, FiniteSets, TLC

VARIABLES
    \* ---- AuthProvider (App.js 16-72) and the shared HTTP client
    user,          \* useState(null), line 17
    token,         \* useState(localStorage.getItem('adminToken')), line 18
    loading,       \* useState(true), line 19
    adminToken,    \* localStorage['adminToken']
    authHeader,    \* axios.defaults.headers.common['Authorization']
    mounted,       \* whether the first run of the token effect has happened
    inflight,      \* requests sent and not yet settled, in order of issue
    lpError,       \* LoginPage: useState(''), line 112
    lpLoading,     \* LoginPage: useState(false), line 113
    \* ---- history of the session, read by the properties only
    last,          \* the handler that ran last: its name, what it returned,
                   \* the requests it issued and the session it started from
    phase,         \* <<"boot">>, <<"out">> after a logout(), <<"in", t>> after
                   \* a login() that succeeded with token t
    resolved,      \* the effect has found no token, or a /auth/me has settled
    \* ---- ProductForm (App.js 489-691)
    images,            \* useState(product?.images || []), line 512
    imageUrlInput,     \* line 513
    imageUploadError,  \* line 514
    replaceIndex,      \* line 515
    dragImageIndex,    \* line 516
    pickerOpen,        \* the file dialog of the hidden replace input is open
    reads,             \* file reads started and not yet settled
    formLast,          \* the form handler that ran last (properties only)
    \* ---- ProductsView (App.js 346-382) or CategoriesView (933-969) with
    \* ---- its form (ProductForm 647-681, CategoryForm 1027-1048)
    view,          \* which of the two views this is
    viewMounted,   \* the view's mount effect has run (lines 352-354, 939-941)
    records,       \* products / categories: useState([]), lines 347, 934
    viewLoading,   \* the view's loading: useState(true), lines 348, 935
    showForm,      \* lines 349, 936
    editing,       \* editingProduct / editingCategory, lines 350, 937
    saving,        \* ProductForm: useState(false), line 518
    saveError,     \* ProductForm: useState(''), line 517
    net,           \* the view's requests sent and not yet settled
    viewLast,      \* the view handler that ran last (properties only)
    \* ---- SettingsView (App.js 1117-1154) and the rate fields of ProductForm
    exchangeRates, \* SettingsView: useState({USD: 1, ...}), lines 1118-1129
    saved,         \* SettingsView: useState(false), line 1130
    savePending,   \* POST /settings/exchange-rates sent and not yet settled
    savedTimers,   \* timeouts of line 1149 not yet fired
    formData,      \* ProductForm: useState({...}), lines 492-511
    rateEdits,     \* rate fields changed so far
    rateLast,      \* the rate handler that ran last (properties only)
    \* ---- the pure routines applied to drawn inputs
    fn,            \* which routine the inputs are for
    arg,           \* the inputs
    out,           \* the result once the routine has run
    ran            \* whether the routine has run

authVars == <<user, token, loading, adminToken, authHeader, mounted, inflight,
              lpError, lpLoading, last, phase, resolved>>
formVars == <<images, imageUrlInput, imageUploadError, replaceIndex,
              dragImageIndex, pickerOpen, reads, formLast>>
fnVars == <<fn, arg, out, ran>>
viewVars == <<view, viewMounted, records, viewLoading, showForm, editing,
              saving, saveError, net, viewLast>>
rateVars == <<exchangeRates, saved, savePending, savedTimers, formData,
              rateEdits, rateLast>>
otherVars == <<viewVars, rateVars>>
vars == <<authVars, formVars, fnVars, otherVars>>

\* ------------------------------------------------------------- bounds
MaxInFlight == 3      \* requests in flight at once
MaxImages == 3        \* entries of the image list
MaxReads == 1         \* file reads pending at once
MaxBatch == 2         \* files in one selection
MaxList == 3          \* length of a list handed to merge or reorder
MaxNormList == 3      \* length of a list handed to normalization
MaxStrLen == 2        \* characters of a string handed to normalization
MaxNet == 3           \* requests of a list view in flight at once
MaxRateEdits == 2     \* changes of rate fields in one run
MaxSaves == 2         \* saves of the settings in flight, and timers pending

\* ------------------------------------------------------------- values
Null == "null"                    \* null / absent
\* A JavaScript string is the sequence of its characters, so that trim() has
\* something to act on: "x y" is <<"x", " ", "y">> and '' is <<>>.
\* undefined is the one value of a list that is not a string.
Undefined == <<"undefined">>
\* null in a state variable that otherwise holds an array position (>= 0)
NullIndex == 0 - 1
Tokens == {"t1", "t2"}            \* tokens the server may issue
Users == {"admin"}                \* user objects the server may return
Bearer(t) == <<"Bearer", t>>      \* the template `Bearer ${t}`, lines 42, 55
LoginFailedMsg == "Login failed"  \* line 62
\* error.response?.data?.message of a failed login: absent, empty or a text
ServerMessages == {Null, "", "Invalid credentials"}

\* ================================================================== Part 1
Session == [user |-> user, token |-> token, adminToken |-> adminToken,
            authHeader |-> authHeader]

LoggedOut == [user |-> Null, token |-> Null, adminToken |-> Null,
              authHeader |-> Null]

\* Faulty variants of a routine are defined right before it; the properties
\* below must fail when a variant takes the routine's place.
\* A logout that leaves the default header, and one that leaves the
\* persisted token:
logoutNoHeader(s) ==
    [s EXCEPT !.adminToken = Null, !.token = Null, !.user = Null]
logoutKeepsStorage(s) ==
    [s EXCEPT !.authHeader = Null, !.token = Null, !.user = Null]
\* logout, lines 21-26, as a function of the session
logout(s) ==
    [s EXCEPT !.adminToken = Null, !.authHeader = Null, !.token = Null,
              !.user = Null]

\* login's try block after the response, lines 52-58
loginThen(s, newToken, userData) ==
    [s EXCEPT !.adminToken = newToken, !.authHeader = Bearer(newToken),
              !.token = newToken, !.user = userData]

\* faulty variant: no fallback message
loginCatchRaw(msg) ==
    [success |-> FALSE, message |-> msg]
\* login's catch block, line 62: what login returns on failure; an absent
\* and an empty message are both falsy under ||
loginCatch(msg) ==
    [success |-> FALSE,
     message |-> IF msg = Null \/ msg = "" THEN LoginFailedMsg ELSE msg]

\* the requests a failed login issues: none, the catch block returns (line 62)
loginCatchRequests(auth, ph) == <<>>

\* faulty variant: clears the user only
fetchUserCatchUserOnly(s) == [s EXCEPT !.user = Null]
\* fetchUser's catch block, lines 32-34
fetchUserCatch(s) == logout(s)

\* faulty variant: loading is left as it was
fetchUserFinallyNone(ld) == ld
\* fetchUser's finally block, line 36
fetchUserFinally(ld) == FALSE

\* AppContent, lines 87-106: what is rendered
AppContent(ld, u) ==
    IF ld THEN "spinner" ELSE IF u = Null THEN "LoginPage" ELSE "Dashboard"

View == AppContent(loading, user)

\* A request as the HTTP client sends it: the default Authorization header at
\* the moment of the call. `at` records the session phase at that moment and
\* `live` whether the LoginPage that awaits it is still mounted.
Request(k, auth, ph) == [kind |-> k, auth |-> auth, at |-> ph, live |-> TRUE]

RemoveAt(s, i) == SubSeq(s, 1, i - 1) \o SubSeq(s, i + 1, Len(s))

\* The token effect, lines 40-47, run for token value t.
\* Gives the header, the loading flag, the requests and whether the effect
\* took its else branch.
TokenEffect(t, hdr, ld, reqs, ph) ==
    IF t # Null
    THEN LET hdr2 == Bearer(t)   \* line 42, then fetchUser's request
         IN [authHeader |-> hdr2, loading |-> ld,
             inflight |-> Append(reqs, Request("me", hdr2, ph)),
             noToken |-> FALSE]
    ELSE [authHeader |-> hdr, loading |-> FALSE, inflight |-> reqs,
          noToken |-> TRUE]

\* The end of a handler run: the state it set is rendered, the token effect
\* runs if `token` changed (its dependency list, line 47), and a LoginPage
\* that is no longer rendered is unmounted: its state is gone and the logins
\* it awaits no longer reach it. `settled` is 1 when the handler is the
\* continuation of a request that settled, so that `issued` counts the
\* requests this run sent.
Commit(s, ld, reqs, e, l, ph, res, op, inp, ret, settled) ==
    LET run == s.token # token
        eff == IF run THEN TokenEffect(s.token, s.authHeader, ld, reqs, ph)
               ELSE [authHeader |-> s.authHeader, loading |-> ld,
                     inflight |-> reqs, noToken |-> FALSE]
        unmount == AppContent(eff.loading, s.user) # "LoginPage"
        reqs2 == IF unmount
                 THEN [i \in 1..Len(eff.inflight) |->
                         [eff.inflight[i] EXCEPT !.live = FALSE]]
                 ELSE eff.inflight
    IN /\ user' = s.user
       /\ token' = s.token
       /\ adminToken' = s.adminToken
       /\ authHeader' = eff.authHeader
       /\ loading' = eff.loading
       /\ inflight' = reqs2
       /\ lpError' = IF unmount THEN "" ELSE e
       /\ lpLoading' = IF unmount THEN FALSE ELSE l
       /\ phase' = ph
       /\ resolved' = (res \/ eff.noToken)
       /\ last' = [op |-> op, inp |-> inp, ret |-> ret,
                   issued |-> Len(eff.inflight) - (Len(inflight) - settled),
                   pre |-> Session]
       /\ mounted' = TRUE

\* First render: the token effect runs for the token read from local storage.
Mount ==
    /\ ~mounted
    /\ LET eff == TokenEffect(token, authHeader, loading, inflight, phase)
       IN /\ authHeader' = eff.authHeader
          /\ loading' = eff.loading
          /\ inflight' = eff.inflight
          /\ resolved' = eff.noToken
          /\ last' = [op |-> "mount", inp |-> Null, ret |-> Null,
                      issued |-> Len(eff.inflight) - Len(inflight),
                      pre |-> Session]
    /\ mounted' = TRUE
    /\ UNCHANGED <<user, token, adminToken, lpError, lpLoading, phase>>
    /\ UNCHANGED <<formVars, fnVars, otherVars>>

\* LoginPage.handleSubmit up to its await (lines 115-120) with login's request
\* (line 51). The submit button is disabled while lpLoading (line 170).
LoginSubmit ==
    /\ mounted /\ View = "LoginPage" /\ ~lpLoading
    /\ Len(inflight) < MaxInFlight
    /\ Commit(Session, loading,
              Append(inflight, Request("login", authHeader, phase)),
              "", TRUE, phase, resolved, "loginSubmit", Null, Null, 0)
    /\ UNCHANGED <<formVars, fnVars, otherVars>>

\* POST /auth/login answered 2xx: lines 52-60, then LoginPage lines 122-126.
LoginSuccess(i, newToken, userData) ==
    /\ inflight[i].kind = "login"
    /\ Commit(loginThen(Session, newToken, userData), loading,
              RemoveAt(inflight, i),
              lpError, IF inflight[i].live THEN FALSE ELSE lpLoading,
              <<"in", newToken>>, resolved,
              "loginSuccess", newToken, [success |-> TRUE], 1)
    /\ UNCHANGED <<formVars, fnVars, otherVars>>

\* POST /auth/login failed: line 62, then LoginPage lines 122-126.
LoginFailure(i, msg) ==
    /\ inflight[i].kind = "login"
    /\ LET result == loginCatch(msg)
           more == loginCatchRequests(authHeader, phase)
       IN Commit(Session, loading, RemoveAt(inflight, i) \o more,
                 IF inflight[i].live THEN result.message ELSE lpError,
                 IF inflight[i].live THEN FALSE ELSE lpLoading,
                 phase, resolved, "loginFailure", msg, result, 1)
    /\ UNCHANGED <<formVars, fnVars, otherVars>>

\* GET /auth/me answered 2xx: lines 31 and 36.
FetchUserSuccess(i, userData) ==
    /\ inflight[i].kind = "me"
    /\ Commit([Session EXCEPT !.user = userData], fetchUserFinally(loading),
              RemoveAt(inflight, i), lpError, lpLoading, phase, TRUE,
              "fetchUserSuccess", Null, Null, 1)
    /\ UNCHANGED <<formVars, fnVars, otherVars>>

\* GET /auth/me failed: lines 32-36.
FetchUserFailure(i) ==
    /\ inflight[i].kind = "me"
    /\ Commit(fetchUserCatch(Session), fetchUserFinally(loading),
              RemoveAt(inflight, i), lpError, lpLoading, <<"out">>, TRUE,
              "fetchUserFailure", Null, Null, 1)
    /\ UNCHANGED <<formVars, fnVars, otherVars>>

\* The Sidebar's logout button (line 242), rendered inside the Dashboard.
Logout ==
    /\ mounted /\ View = "Dashboard"
    /\ Commit(logout(Session), loading, inflight, lpError, lpLoading,
              <<"out">>, resolved, "logout", Null, Null, 0)
    /\ UNCHANGED <<formVars, fnVars, otherVars>>

\* A request of a Dashboard view (lines 269-270, 358, 371, 668-670, 945, ...).
ApiRequest ==
    /\ mounted /\ View = "Dashboard"
    /\ Len(inflight) < MaxInFlight
    /\ Commit(Session, loading,
              Append(inflight, Request("api", authHeader, phase)),
              lpError, lpLoading, phase, resolved, "apiRequest", Null, Null, 0)
    /\ UNCHANGED <<formVars, fnVars, otherVars>>

\* A Dashboard view's request settles; the session is not touched. The
\* continuation may send the next request (the reload after a delete or a
\* save, lines 371-372 and 668-672), whether or not the view that started it
\* is still rendered.
ApiSettle(i, reload) ==
    /\ inflight[i].kind = "api"
    /\ Commit(Session, loading,
              IF reload
              THEN Append(RemoveAt(inflight, i),
                          Request("api", authHeader, phase))
              ELSE RemoveAt(inflight, i),
              lpError, lpLoading, phase, resolved, "apiSettle", reload, Null,
              1)
    /\ UNCHANGED <<formVars, fnVars, otherVars>>

FormIdle ==
    /\ images = <<>> /\ imageUrlInput = <<>> /\ imageUploadError = ""
    /\ replaceIndex = NullIndex /\ dragImageIndex = NullIndex
    /\ reads = <<>> /\ pickerOpen = FALSE
    /\ formLast = [op |-> "init", pre |-> <<>>, inp |-> Null]

FnIdle == fn = "none" /\ arg = <<>> /\ out = <<>> /\ ran = FALSE

ViewIdle ==
    /\ view = "none" /\ viewMounted = FALSE /\ records = <<>>
    /\ viewLoading = TRUE /\ showForm = FALSE /\ editing = Null
    /\ saving = FALSE /\ saveError = "" /\ net = <<>>
    /\ viewLast = [op |-> "init"]

\* ---- numbers. A rate is a decimal with two places and is kept as its
\* number of hundredths: 0.79 is 79, 1 is 100 and 82.5 is 8250.

Codes == {"USD", "GBP", "EUR", "INR", "AED", "AUD", "CAD", "JPY", "CNY", "SAR"}

\* the table of lines 498-507 and 1119-1128
DefaultRates ==
    [c \in Codes |->
        CASE c = "USD" -> 100
          [] c = "GBP" -> 79
          [] c = "EUR" -> 92
          [] c = "INR" -> 8250
          [] c = "AED" -> 367
          [] c = "AUD" -> 152
          [] c = "CAD" -> 135
          [] c = "JPY" -> 14800
          [] c = "CNY" -> 724
          [] c = "SAR" -> 375]

RatesIdle ==
    /\ exchangeRates = DefaultRates /\ saved = FALSE /\ savePending = 0
    /\ savedTimers = 0 /\ formData = [exchangeRates |-> DefaultRates]
    /\ rateEdits = 0 /\ rateLast = [op |-> "init"]

OtherIdle == ViewIdle /\ RatesIdle

AuthIdle ==
    /\ user = Null /\ token = Null /\ loading = TRUE /\ adminToken = Null
    /\ authHeader = Null /\ mounted = FALSE /\ inflight = <<>>
    /\ lpError = "" /\ lpLoading = FALSE
    /\ last = [op |-> "init", inp |-> Null, ret |-> Null, issued |-> 0,
               pre |-> LoggedOut]
    /\ phase = <<"boot">> /\ resolved = FALSE

\* Process start: local storage holds a token of an earlier run, or none.
InitAuth ==
    /\ adminToken \in Tokens \cup {Null}
    /\ token = adminToken
    /\ user = Null /\ loading = TRUE /\ authHeader = Null
    /\ mounted = FALSE /\ inflight = <<>>
    /\ lpError = "" /\ lpLoading = FALSE
    /\ last = [op |-> "init", inp |-> Null, ret |-> Null, issued |-> 0,
               pre |-> [user |-> Null, token |-> adminToken,
                        adminToken |-> adminToken, authHeader |-> Null]]
    /\ phase = <<"boot">> /\ resolved = FALSE
    /\ FormIdle /\ FnIdle /\ OtherIdle

NextAuth ==
    \/ Mount
    \/ LoginSubmit
    \/ \E i \in 1..Len(inflight), t \in Tokens, u \in Users :
          LoginSuccess(i, t, u)
    \/ \E i \in 1..Len(inflight), m \in ServerMessages : LoginFailure(i, m)
    \/ \E i \in 1..Len(inflight), u \in Users : FetchUserSuccess(i, u)
    \/ \E i \in 1..Len(inflight) : FetchUserFailure(i)
    \/ Logout
    \/ ApiRequest
    \/ \E i \in 1..Len(inflight), reload \in BOOLEAN : ApiSettle(i, reload)

SpecAuth == InitAuth /\ [][NextAuth]_vars

\* ================================================================== Part 2
\* The list routines of ProductForm as functions of their inputs.

Range(L) == {L[i] : i \in 1..Len(L)}
NoDuplicates(L) == \A i, j \in 1..Len(L) : L[i] = L[j] => i = j
Min(a, b) == IF a < b THEN a ELSE b
Max(a, b) == IF a > b THEN a ELSE b

\* Array.prototype.splice(start, deleteCount, ...items) on a copy of L, with
\* its clamping of start and deleteCount; positions are 0-based.
Splice(L, start, deleteCount, items) ==
    LET len == Len(L)
        st == IF start < 0 THEN Max(len + start, 0) ELSE Min(start, len)
        dc == Min(Max(deleteCount, 0), len - st)
    IN [list |-> SubSeq(L, 1, st) \o items \o SubSeq(L, st + dc + 1, len),
        removed |-> SubSeq(L, st + 1, st + dc)]

\* the forEach of lines 525-530: the images of newImages not seen so far
RECURSIVE uniqueToAdd(_, _)
uniqueToAdd(seen, newImages) ==
    IF newImages = <<>> THEN <<>>
    ELSE IF Head(newImages) \in seen
         THEN uniqueToAdd(seen, Tail(newImages))
         ELSE <<Head(newImages)>>
              \o uniqueToAdd(seen \cup {Head(newImages)}, Tail(newImages))

\* faulty variant: appends the whole batch
mergeConcat(existingImages, newImages) == existingImages \o newImages
\* mergeUniqueImages, lines 521-533
mergeUniqueImages(existingImages, newImages) ==
    existingImages \o uniqueToAdd(Range(existingImages), newImages)

\* faulty variant: exchanges the two entries
reorderSwap(prevImages, fromIndex, toIndex) ==
    IF fromIndex = toIndex \/ fromIndex < 0 \/ toIndex < 0
       \/ fromIndex >= Len(prevImages) \/ toIndex >= Len(prevImages)
    THEN prevImages
    ELSE [prevImages EXCEPT ![fromIndex + 1] = prevImages[toIndex + 1],
                            ![toIndex + 1] = prevImages[fromIndex + 1]]
\* reorderImages, lines 582-593: the image list after the call
reorderImages(prevImages, fromIndex, toIndex) ==
    IF fromIndex = toIndex \/ fromIndex < 0 \/ toIndex < 0
    THEN prevImages
    ELSE LET cut == Splice(prevImages, fromIndex, 1, <<>>)
             \* const [movedImage] = ...: undefined when nothing was removed
             movedImage == IF cut.removed = <<>> THEN Undefined
                           ELSE cut.removed[1]
         IN Splice(cut.list, toIndex, 0, <<movedImage>>).list

\* String.prototype.trim, with " " the whitespace character
RECURSIVE trimStart(_)
trimStart(str) ==
    IF str # <<>> /\ Head(str) = " " THEN trimStart(Tail(str)) ELSE str
RECURSIVE trimEnd(_)
trimEnd(str) ==
    IF str # <<>> /\ str[Len(str)] = " "
    THEN trimEnd(SubSeq(str, 1, Len(str) - 1)) ELSE str
trim(str) == trimEnd(trimStart(str))

\* Array.from(new Set(L)): the first occurrence of each value, in order
RECURSIVE arrayFromSet(_)
arrayFromSet(L) ==
    IF L = <<>> THEN <<>>
    ELSE LET init == arrayFromSet(SubSeq(L, 1, Len(L) - 1))
             x == L[Len(L)]
         IN IF x \in Range(init) THEN init ELSE Append(init, x)

\* faulty variant: entries are not trimmed
normalizedNoTrim(imgs) ==
    arrayFromSet(SelectSeq([i \in 1..Len(imgs) |->
                               IF imgs[i] # Undefined THEN imgs[i] ELSE <<>>],
                           LAMBDA x : x # <<>>))
\* handleSubmit, lines 652-658
normalizedImages(imgs) ==
    arrayFromSet(SelectSeq([i \in 1..Len(imgs) |->
                               IF imgs[i] # Undefined THEN trim(imgs[i])
                               ELSE <<>>],
                           LAMBDA x : x # <<>>))

\* the image fields of handleSubmit's payload, lines 660-665
payload(imgs) ==
    LET n == normalizedImages(imgs)
    IN [images |-> n, image |-> IF n = <<>> THEN <<>> ELSE n[1]]

\* ---- inputs
Seqs(S, n) == UNION {[1..k -> S] : k \in 0..n}
Chars == {" ", "x"}
Strings == Seqs(Chars, MaxStrLen)
\* image references handed to merge and reorder
ImageRefs == {<<"x">>, <<"y">>, <<"z">>}

InitMerge ==
    /\ fn = "merge" /\ ran = FALSE /\ out = <<>>
    /\ arg \in Seqs(ImageRefs, MaxList) \X Seqs(ImageRefs, MaxList)
    /\ AuthIdle /\ FormIdle /\ OtherIdle

RunMerge ==
    /\ fn = "merge" /\ ~ran
    /\ out' = mergeUniqueImages(arg[1], arg[2])
    /\ ran' = TRUE
    /\ UNCHANGED <<fn, arg, authVars, formVars, otherVars>>

SpecMerge == InitMerge /\ [][RunMerge]_vars

InitReorder ==
    /\ fn = "reorder" /\ ran = FALSE /\ out = <<>>
    /\ \E L \in Seqs(ImageRefs, MaxList) :
          arg \in {L} \X (-1..Len(L) + 1) \X (-1..Len(L) + 1)
    /\ AuthIdle /\ FormIdle /\ OtherIdle

RunReorder ==
    /\ fn = "reorder" /\ ~ran
    /\ out' = reorderImages(arg[1], arg[2], arg[3])
    /\ ran' = TRUE
    /\ UNCHANGED <<fn, arg, authVars, formVars, otherVars>>

SpecReorder == InitReorder /\ [][RunReorder]_vars

InitNormalize ==
    /\ fn = "normalize" /\ ran = FALSE /\ out = <<>>
    /\ arg \in Seqs(Strings \cup {Undefined}, MaxNormList)
    /\ AuthIdle /\ FormIdle /\ OtherIdle

RunNormalize ==
    /\ fn = "normalize" /\ ~ran
    /\ out' = payload(arg)
    /\ ran' = TRUE
    /\ UNCHANGED <<fn, arg, authVars, formVars, otherVars>>

SpecNormalize == InitNormalize /\ [][RunNormalize]_vars

\* ================================================================== Part 3
\* The image list editor of ProductForm. A file is its declared type and the
\* data URL FileReader gives for its content; a read may also fail.

DataUrls == {<<"d">>, <<"e">>}
\* two image files and a file of another type
Files == [type : {"image/png"}, data : DataUrls]
         \cup {[type |-> "text/plain", data |-> <<"d">>]}
\* file.type.startsWith('image/'), lines 549 and 629
IsImage(file) == file.type = "image/png"
\* what may be typed into the URL field (line 771)
UrlInputs == {<<" ">>, <<" ", "x">>}
\* product?.images || [] of the product being edited (line 512)
InitialImages == {L \in Seqs({<<"x">>, <<"d">>}, 2) : NoDuplicates(L)}

OnlyImagesMsg == "Only image files are allowed."            \* lines 551, 630
UnableToProcessMsg == "Unable to process one or more files." \* line 561
UnableToReplaceMsg == "Unable to replace image."             \* line 640

\* images that the pending uploads may still append
RECURSIVE PendingAdds(_)
PendingAdds(jobs) ==
    IF jobs = <<>> THEN 0
    ELSE (IF Head(jobs).kind = "upload" THEN Len(Head(jobs).files) ELSE 0)
         + PendingAdds(Tail(jobs))

\* The file dialog is modal and a drag is one gesture: while either is under
\* way the operator starts nothing else; reads that were started go on.
UserCanAct == ~pickerOpen /\ dragImageIndex = NullIndex

Indices == 0..(Len(images) - 1)

\* onChange of the URL field, line 771
SetImageUrlInput(v) ==
    /\ UserCanAct
    /\ imageUrlInput # v
    /\ imageUrlInput' = v
    /\ formLast' = [op |-> "setImageUrlInput", pre |-> images, inp |-> v]
    /\ UNCHANGED <<images, imageUploadError, replaceIndex, dragImageIndex,
                   pickerOpen, reads>>
    /\ UNCHANGED <<authVars, fnVars, otherVars>>

\* the updater of line 573
addFromUrl(prevImages, trimmed) ==
    IF trimmed \in Range(prevImages) THEN prevImages
    ELSE Append(prevImages, trimmed)

\* addImageFromUrl, lines 567-576
AddImageFromUrl ==
    /\ UserCanAct
    /\ Len(images) + PendingAdds(reads) < MaxImages
    /\ LET trimmed == trim(imageUrlInput)
       IN IF trimmed = <<>>
          THEN UNCHANGED <<images, imageUrlInput, imageUploadError>>
          ELSE /\ images' = addFromUrl(images, trimmed)
               /\ imageUrlInput' = <<>>
               /\ imageUploadError' = ""
    /\ formLast' = [op |-> "addImageFromUrl", pre |-> images,
                    inp |-> imageUrlInput]
    /\ UNCHANGED <<replaceIndex, dragImageIndex, pickerOpen, reads>>
    /\ UNCHANGED <<authVars, fnVars, otherVars>>

\* faulty variant: only the first file's type is looked at
invalidFileFirstOnly(files) == files # <<>> /\ ~IsImage(files[1])
\* files.find(file => !file.type.startsWith('image/')), line 549: whether
\* the selection holds a file that is not an image
invalidFile(files) == \E i \in 1..Len(files) : ~IsImage(files[i])

\* handleLocalImageUpload up to its await, lines 543-557
HandleLocalImageUpload(files) ==
    /\ UserCanAct
    /\ IF files = <<>>
       THEN UNCHANGED <<imageUploadError, reads>>
       ELSE IF invalidFile(files)
            THEN /\ imageUploadError' = OnlyImagesMsg
                 /\ UNCHANGED reads
            ELSE /\ Len(reads) < MaxReads
                 /\ Len(images) + PendingAdds(reads) + Len(files) <= MaxImages
                 /\ reads' = Append(reads, [kind |-> "upload", files |-> files,
                                            index |-> NullIndex,
                                            target |-> <<>>])
                 /\ UNCHANGED imageUploadError
    /\ formLast' = [op |-> "handleLocalImageUpload", pre |-> images,
                    inp |-> files]
    /\ UNCHANGED <<images, imageUrlInput, replaceIndex, dragImageIndex,
                   pickerOpen>>
    /\ UNCHANGED <<authVars, fnVars, otherVars>>

\* handleLocalImageUpload after Promise.all settled, lines 557-564:
\* every read succeeded (ok) or one was rejected
LocalImageUploadSettled(k, ok) ==
    /\ reads[k].kind = "upload"
    /\ LET files == reads[k].files
           uploadedImages == [i \in 1..Len(files) |-> files[i].data]
       IN IF ok
          THEN /\ images' = mergeUniqueImages(images, uploadedImages)
               /\ imageUploadError' = ""
          ELSE /\ imageUploadError' = UnableToProcessMsg
               /\ UNCHANGED images
    /\ reads' = RemoveAt(reads, k)
    /\ formLast' = [op |-> IF ok THEN "uploadDone" ELSE "uploadFailed",
                    pre |-> images, inp |-> reads[k].files]
    /\ UNCHANGED <<imageUrlInput, replaceIndex, dragImageIndex, pickerOpen>>
    /\ UNCHANGED <<authVars, fnVars, otherVars>>

\* removeImage, lines 578-580
removeImage(prevImages, indexToRemove) ==
    SelectSeq([i \in 1..Len(prevImages) |->
                  <<i - 1, prevImages[i]>>],
              LAMBDA p : p[1] # indexToRemove)

RemoveImage(indexToRemove) ==
    /\ UserCanAct
    /\ LET kept == removeImage(images, indexToRemove)
       IN images' = [i \in 1..Len(kept) |-> kept[i][2]]
    /\ formLast' = [op |-> "removeImage", pre |-> images,
                    inp |-> indexToRemove]
    /\ UNCHANGED <<imageUrlInput, imageUploadError, replaceIndex,
                   dragImageIndex, pickerOpen, reads>>
    /\ UNCHANGED <<authVars, fnVars, otherVars>>

\* handleDragStart, lines 595-597
HandleDragStart(index) ==
    /\ UserCanAct
    /\ dragImageIndex' = index
    /\ formLast' = [op |-> "handleDragStart", pre |-> images, inp |-> index]
    /\ UNCHANGED <<images, imageUrlInput, imageUploadError, replaceIndex,
                   pickerOpen, reads>>
    /\ UNCHANGED <<authVars, fnVars, otherVars>>

\* handleDrop, lines 603-609, on the tile at targetIndex
HandleDrop(targetIndex) ==
    /\ ~pickerOpen
    /\ dragImageIndex # NullIndex
    /\ images' = reorderImages(images, dragImageIndex, targetIndex)
    /\ dragImageIndex' = NullIndex
    /\ formLast' = [op |-> "handleDrop", pre |-> images,
                    inp |-> <<dragImageIndex, targetIndex>>]
    /\ UNCHANGED <<imageUrlInput, imageUploadError, replaceIndex, pickerOpen,
                   reads>>
    /\ UNCHANGED <<authVars, fnVars, otherVars>>

\* handleDragEnd, lines 611-613: the drag ended off every tile
HandleDragEnd ==
    /\ ~pickerOpen
    /\ dragImageIndex # NullIndex
    /\ dragImageIndex' = NullIndex
    /\ formLast' = [op |-> "handleDragEnd", pre |-> images, inp |-> Null]
    /\ UNCHANGED <<images, imageUrlInput, imageUploadError, replaceIndex,
                   pickerOpen, reads>>
    /\ UNCHANGED <<authVars, fnVars, otherVars>>

\* openReplacePicker, lines 615-620
OpenReplacePicker(index) ==
    /\ UserCanAct
    /\ replaceIndex' = index
    /\ pickerOpen' = TRUE
    /\ formLast' = [op |-> "openReplacePicker", pre |-> images, inp |-> index]
    /\ UNCHANGED <<images, imageUrlInput, imageUploadError, dragImageIndex,
                   reads>>
    /\ UNCHANGED <<authVars, fnVars, otherVars>>

\* The dialog is dismissed: the input fires no change event.
CancelReplacePicker ==
    /\ pickerOpen
    /\ pickerOpen' = FALSE
    /\ formLast' = [op |-> "cancelReplacePicker", pre |-> images, inp |-> Null]
    /\ UNCHANGED <<images, imageUrlInput, imageUploadError, replaceIndex,
                   dragImageIndex, reads>>
    /\ UNCHANGED <<authVars, fnVars, otherVars>>

\* handleReplaceImageUpload up to its await, lines 622-636. The handler keeps
\* the replaceIndex of the render it was created in. `target` (history) is
\* the entry at that position; the file dialog is modal, and a read that
\* settles while it is open either appends or resets replaceIndex, so the
\* entry is the one that was there when the picker was opened.
HandleReplaceImageUpload(file) ==
    /\ pickerOpen
    /\ pickerOpen' = FALSE
    /\ IF replaceIndex = NullIndex
       THEN UNCHANGED <<imageUploadError, reads>>
       ELSE IF ~IsImage(file)
            THEN /\ imageUploadError' = OnlyImagesMsg
                 /\ UNCHANGED reads
            ELSE /\ Len(reads) < MaxReads
                 /\ reads' = Append(reads, [kind |-> "replace",
                                            files |-> <<file>>,
                                            index |-> replaceIndex,
                                            target |-> images[replaceIndex + 1]])
                 /\ UNCHANGED imageUploadError
    /\ formLast' = [op |-> "handleReplaceImageUpload", pre |-> images,
                    inp |-> file]
    /\ UNCHANGED <<images, imageUrlInput, replaceIndex, dragImageIndex>>
    /\ UNCHANGED <<authVars, fnVars, otherVars>>

\* the updater of line 637
replaceAt(prevImages, index, newImage) ==
    [i \in 1..Len(prevImages) |->
        IF i - 1 = index THEN newImage ELSE prevImages[i]]

\* handleReplaceImageUpload after the read settled, lines 636-644
ReplaceImageUploadSettled(k, ok) ==
    /\ reads[k].kind = "replace"
    /\ IF ok
       THEN /\ images' = replaceAt(images, reads[k].index,
                                   reads[k].files[1].data)
            /\ imageUploadError' = ""
       ELSE /\ imageUploadError' = UnableToReplaceMsg
            /\ UNCHANGED images
    /\ replaceIndex' = NullIndex
    /\ reads' = RemoveAt(reads, k)
    /\ formLast' = [op |-> IF ok THEN "replaceDone" ELSE "replaceFailed",
                    pre |-> images,
                    inp |-> <<reads[k].index, reads[k].files[1].data,
                              reads[k].target>>]
    /\ UNCHANGED <<imageUrlInput, dragImageIndex, pickerOpen>>
    /\ UNCHANGED <<authVars, fnVars, otherVars>>

InitForm ==
    /\ images \in InitialImages
    /\ imageUrlInput = <<>> /\ imageUploadError = ""
    /\ replaceIndex = NullIndex /\ dragImageIndex = NullIndex /\ pickerOpen = FALSE
    /\ reads = <<>>
    /\ formLast = [op |-> "init", pre |-> images, inp |-> Null]
    /\ AuthIdle /\ FnIdle /\ OtherIdle

NextForm ==
    \/ \E v \in UrlInputs : SetImageUrlInput(v)
    \/ AddImageFromUrl
    \/ \E files \in Seqs(Files, MaxBatch) : HandleLocalImageUpload(files)
    \/ \E k \in 1..Len(reads), ok \in BOOLEAN : LocalImageUploadSettled(k, ok)
    \/ \E i \in Indices : RemoveImage(i)
    \/ \E i \in Indices : HandleDragStart(i)
    \/ \E i \in Indices : HandleDrop(i)
    \/ HandleDragEnd
    \/ \E i \in Indices : OpenReplacePicker(i)
    \/ CancelReplacePicker
    \/ \E file \in Files : HandleReplaceImageUpload(file)
    \/ \E k \in 1..Len(reads), ok \in BOOLEAN : ReplaceImageUploadSettled(k, ok)

SpecForm == InitForm /\ [][NextForm]_vars

\* The editor with the operator adding and removing images only: the handlers
\* that a selection of local files runs, and those that change the list they
\* merge into.
NextUpload ==
    \/ \E v \in UrlInputs : SetImageUrlInput(v)
    \/ AddImageFromUrl
    \/ \E files \in Seqs(Files, MaxBatch) : HandleLocalImageUpload(files)
    \/ \E k \in 1..Len(reads), ok \in BOOLEAN : LocalImageUploadSettled(k, ok)
    \/ \E i \in Indices : RemoveImage(i)

SpecUpload == InitForm /\ [][NextUpload]_vars

\* ================================================================== Part 4
\* A list view (ProductsView or CategoriesView) with its modal form. The two
\* views have the same code up to names; where the forms differ the actions
\* branch on `view`.

Views == {"products", "categories"}
ItemIds == {"a", "b"}                 \* _id of the records the server holds
\* response.data.products / .categories of a list response: absent, or a list
Collections == {Null, <<>>, <<"a">>, <<"a", "b">>}
\* error.response?.data?.message of a failed save: absent, empty or a text
SaveMessages == {Null, "", "Name is required"}
ErrorSavingProductMsg == "Error saving product"      \* line 676
ErrorSavingCategoryMsg == "Error saving category"    \* line 1046
ErrorDeletingProductMsg == "Error deleting product"  \* line 375
ErrorDeletingCategoryMsg == "Error deleting category" \* line 962

\* A request of the view or of its form. `form` is "none" for a request no
\* form handler awaits, "live" while the form whose handleSubmit awaits it is
\* mounted and "gone" once that form has been closed. `confirmed` is the
\* answer window.confirm gave in the handler that sent a DELETE. `overtaken`
\* (history) tells of a list request that one sent after it has settled
\* already.
Req(kind, id, form, confirmed) ==
    [kind |-> kind, id |-> id, form |-> form, confirmed |-> confirmed,
     overtaken |-> FALSE]

\* the list request of loadProducts / loadCategories, lines 358 and 945
loadRequest(form) == Req("get", Null, form, FALSE)

\* faulty variant: the response is ignored
loadThenKeeps(prevRecords, data) == prevRecords
\* setProducts(response.data.products || []), lines 359 and 946
loadThen(prevRecords, data) == IF data = Null THEN <<>> ELSE data

\* faulty variant: the list shown is kept
loadCatchKeeps(prevRecords) == prevRecords
\* the catch block of the list fetch, lines 360-362 and 947-949
loadCatch(prevRecords) == <<>>

\* the finally block of the list fetch, lines 364 and 951
loadFinally(ld) == FALSE

\* faulty variant: the DELETE is sent whatever the answer
deleteRequestsUnasked(id, answer) == <<Req("delete", id, "none", answer)>>
\* deleteProduct / deleteCategory up to the await, lines 369-371 and 956-958:
\* the requests sent for the answer window.confirm gave
deleteRequests(id, answer) ==
    IF answer THEN <<Req("delete", id, "none", answer)>> ELSE <<>>

\* after the DELETE succeeded: loadProducts() / loadCategories(), lines 372, 959
deleteThen == <<loadRequest("none")>>

\* faulty variant: the list is reloaded after a failed DELETE too
deleteCatchReloads(v) ==
    [notice |-> IF v = "products" THEN ErrorDeletingProductMsg
                ELSE ErrorDeletingCategoryMsg,
     issued |-> <<loadRequest("none")>>]
\* the catch block of the delete, lines 373-376 and 960-963: the alert shown
\* and the requests sent
deleteCatch(v) ==
    [notice |-> IF v = "products" THEN ErrorDeletingProductMsg
                ELSE ErrorDeletingCategoryMsg,
     issued |-> <<>>]

\* the catch block of a save: ProductForm sets saveError (lines 674-677),
\* CategoryForm alerts (lines 1044-1047)
saveCatch(v, msg) ==
    IF v = "products"
    THEN [saveError |-> IF msg = Null \/ msg = "" THEN ErrorSavingProductMsg
                        ELSE msg,
          notice |-> ""]
    ELSE [saveError |-> "", notice |-> ErrorSavingCategoryMsg]

\* the submit control: ProductForm's button is disabled while saving (line
\* 912); CategoryForm's button has no disabled attribute (lines 1096-1101)
submitEnabled(v, sv) == IF v = "products" THEN ~sv ELSE TRUE

\* the form is unmounted: the handlers that still await a request are no
\* longer those of a mounted form
FormGone(reqs) ==
    [i \in 1..Len(reqs) |->
        IF reqs[i].form = "live" THEN [reqs[i] EXCEPT !.form = "gone"]
        ELSE reqs[i]]

ViewState == [records |-> records, viewLoading |-> viewLoading,
              showForm |-> showForm, editing |-> editing]

\* What a handler run leaves in the history. `stale` tells that the list
\* shown is the result of a list request that had been overtaken.
RanLoad(op, inp, issued, notice, stale) ==
    viewLast' = [op |-> op, inp |-> inp, issued |-> issued,
                 notice |-> notice, pre |-> ViewState, stale |-> stale]
Ran(op, inp, issued, notice) ==
    RanLoad(op, inp, issued, notice, viewLast.stale)

\* the list request at position i settles: the list requests sent before it
\* (`reqs` is in order of sending) are overtaken
Overtake(reqs, i) ==
    [j \in 1..Len(reqs) |->
        IF j < i /\ reqs[j].kind = "get"
        THEN [reqs[j] EXCEPT !.overtaken = TRUE] ELSE reqs[j]]

\* the mount effect, lines 352-354 and 939-941
ViewMount ==
    /\ ~viewMounted
    /\ viewMounted' = TRUE
    /\ net' = Append(net, loadRequest("none"))
    /\ Ran("viewMount", Null, <<loadRequest("none")>>, "")
    /\ UNCHANGED <<view, records, viewLoading, showForm, editing, saving,
                   saveError>>
    /\ UNCHANGED <<authVars, formVars, fnVars, rateVars>>

\* What follows a settled list fetch. A fetch that ProductForm.handleSubmit
\* awaits (`await onSave()`, line 672) goes on with onClose() and the finally
\* block (lines 673, 679); onClose is the view's, whichever form is open.
LoadSettled(i, newRecords, op, inp) ==
    /\ net[i].kind = "get"
    /\ records' = newRecords
    /\ viewLoading' = loadFinally(viewLoading)
    /\ IF net[i].form = "none"
       THEN /\ net' = RemoveAt(Overtake(net, i), i)
            /\ UNCHANGED <<showForm, editing, saving, saveError>>
       ELSE /\ net' = FormGone(RemoveAt(Overtake(net, i), i))
            /\ showForm' = FALSE /\ editing' = Null
            /\ saving' = FALSE /\ saveError' = ""
    /\ RanLoad(op, inp, <<>>, "", net[i].overtaken)
    /\ UNCHANGED <<view, viewMounted>>
    /\ UNCHANGED <<authVars, formVars, fnVars, rateVars>>

\* loadProducts / loadCategories after a 2xx, lines 359, 364 and 946, 951
LoadSuccess(i, data) ==
    LoadSettled(i, loadThen(records, data), "loadSuccess", data)

\* loadProducts / loadCategories after a failure, lines 360-364 and 947-951
LoadFailure(i) ==
    LoadSettled(i, loadCatch(records), "loadFailure", Null)

\* the Add and Edit buttons, lines 389, 457 and 976, 998; the open form's
\* backdrop covers them
OpenForm(e) ==
    /\ viewMounted /\ ~viewLoading /\ ~showForm
    /\ showForm' = TRUE /\ editing' = e
    /\ Ran("openForm", e, <<>>, "")
    /\ UNCHANGED <<view, viewMounted, records, viewLoading, saving, saveError,
                   net>>
    /\ UNCHANGED <<authVars, formVars, fnVars, rateVars>>

\* onClose from the form's backdrop or X button (lines 694, 698 and 1051,
\* 1055), which stay enabled while a save is pending, or from Cancel
CloseForm ==
    /\ showForm
    /\ showForm' = FALSE /\ editing' = Null
    /\ saving' = FALSE /\ saveError' = ""
    /\ net' = FormGone(net)
    /\ Ran("closeForm", Null, <<>>, "")
    /\ UNCHANGED <<view, viewMounted, records, viewLoading>>
    /\ UNCHANGED <<authVars, formVars, fnVars, rateVars>>

\* handleSubmit up to its await: ProductForm lines 647-671, CategoryForm
\* lines 1034-1041. A disabled button fires no submit event.
SubmitForm ==
    /\ showForm /\ submitEnabled(view, saving)
    /\ Len(net) < MaxNet
    /\ net' = Append(net, Req("save", editing, "live", FALSE))
    /\ IF view = "products"
       THEN saveError' = "" /\ saving' = TRUE
       ELSE UNCHANGED <<saveError, saving>>
    /\ Ran("submitForm", editing, <<Req("save", editing, "live", FALSE)>>, "")
    /\ UNCHANGED <<view, viewMounted, records, viewLoading, showForm, editing>>
    /\ UNCHANGED <<authVars, formVars, fnVars, rateVars>>

\* the PUT or POST succeeded. ProductForm: `await onSave()` (line 672) sends
\* the list request and waits for it. CategoryForm: onSave() then onClose()
\* at once (lines 1042-1043).
SaveSuccess(i) ==
    /\ net[i].kind = "save"
    /\ IF view = "products"
       THEN /\ net' = Append(RemoveAt(net, i), loadRequest(net[i].form))
            /\ Ran("saveSuccess", net[i].form,
                   <<loadRequest(net[i].form)>>, "")
            /\ UNCHANGED <<showForm, editing, saving, saveError>>
       ELSE /\ net' = FormGone(Append(RemoveAt(net, i), loadRequest("none")))
            /\ Ran("saveSuccess", net[i].form, <<loadRequest("none")>>, "")
            /\ showForm' = FALSE /\ editing' = Null
            /\ saving' = FALSE /\ saveError' = ""
    /\ UNCHANGED <<view, viewMounted, records, viewLoading>>
    /\ UNCHANGED <<authVars, formVars, fnVars, rateVars>>

\* the PUT or POST failed: ProductForm lines 674-679, CategoryForm lines
\* 1044-1047. The state of a form that was closed meanwhile is gone.
SaveFailure(i, msg) ==
    /\ net[i].kind = "save"
    /\ LET c == saveCatch(view, msg)
       IN /\ IF view = "products" /\ net[i].form = "live"
             THEN saveError' = c.saveError /\ saving' = FALSE
             ELSE UNCHANGED <<saveError, saving>>
          /\ Ran("saveFailure", <<net[i].form, msg>>, <<>>, c.notice)
    /\ net' = RemoveAt(net, i)
    /\ UNCHANGED <<view, viewMounted, records, viewLoading, showForm, editing>>
    /\ UNCHANGED <<authVars, formVars, fnVars, rateVars>>

\* the Delete button of a row or card (lines 463, 1004) with the answer
\* given to window.confirm: deleteProduct / deleteCategory up to the await
DeleteClick(id, answer) ==
    /\ viewMounted /\ ~viewLoading /\ ~showForm
    /\ id \in Range(records)
    /\ LET reqs == deleteRequests(id, answer)
       IN /\ Len(net) + Len(reqs) <= MaxNet
          /\ net' = net \o reqs
          /\ Ran("deleteClick", <<id, answer>>, reqs, "")
    /\ UNCHANGED <<view, viewMounted, records, viewLoading, showForm, editing,
                   saving, saveError>>
    /\ UNCHANGED <<authVars, formVars, fnVars, rateVars>>

\* the DELETE succeeded, lines 372 and 959
DeleteSuccess(i) ==
    /\ net[i].kind = "delete"
    /\ net' = RemoveAt(net, i) \o deleteThen
    /\ Ran("deleteSuccess", net[i].id, deleteThen, "")
    /\ UNCHANGED <<view, viewMounted, records, viewLoading, showForm, editing,
                   saving, saveError>>
    /\ UNCHANGED <<authVars, formVars, fnVars, rateVars>>

\* the DELETE failed, lines 373-376 and 960-963
DeleteFailure(i) ==
    /\ net[i].kind = "delete"
    /\ LET c == deleteCatch(view)
       IN /\ net' = RemoveAt(net, i) \o c.issued
          /\ Ran("deleteFailure", net[i].id, c.issued, c.notice)
    /\ UNCHANGED <<view, viewMounted, records, viewLoading, showForm, editing,
                   saving, saveError>>
    /\ UNCHANGED <<authVars, formVars, fnVars, rateVars>>

InitView ==
    /\ view \in Views
    /\ viewMounted = FALSE /\ records = <<>> /\ viewLoading = TRUE
    /\ showForm = FALSE /\ editing = Null
    /\ saving = FALSE /\ saveError = "" /\ net = <<>>
    /\ viewLast = [op |-> "init", inp |-> Null, issued |-> <<>>,
                   notice |-> "", stale |-> FALSE,
                   pre |-> [records |-> <<>>, viewLoading |-> TRUE,
                            showForm |-> FALSE, editing |-> Null]]
    /\ AuthIdle /\ FormIdle /\ FnIdle /\ RatesIdle

NextView ==
    \/ ViewMount
    \/ \E i \in 1..Len(net), data \in Collections : LoadSuccess(i, data)
    \/ \E i \in 1..Len(net) : LoadFailure(i)
    \/ \E e \in Range(records) \cup {Null} : OpenForm(e)
    \/ CloseForm
    \/ SubmitForm
    \/ \E i \in 1..Len(net) : SaveSuccess(i)
    \/ \E i \in 1..Len(net), msg \in SaveMessages : SaveFailure(i, msg)
    \/ \E id \in ItemIds, answer \in BOOLEAN : DeleteClick(id, answer)
    \/ \E i \in 1..Len(net) : DeleteSuccess(i)
    \/ \E i \in 1..Len(net) : DeleteFailure(i)

SpecView == InitView /\ [][NextView]_vars

\* ================================================================== Part 5
\* The exchange-rate tables: the global one of SettingsView and the one of
\* the product being edited in ProductForm.

\* ---- parseFloat on the strings a number field can hold
Digits == {"0", "2", "5"}
DigitValue(ch) == CASE ch = "0" -> 0 [] ch = "2" -> 2 [] ch = "5" -> 5
\* the longest prefix of str made of digits
RECURSIVE leadingDigits(_)
leadingDigits(str) ==
    IF str # <<>> /\ Head(str) \in Digits
    THEN <<Head(str)>> \o leadingDigits(Tail(str))
    ELSE <<>>
\* the number a string of digits denotes
RECURSIVE digitsValue(_)
digitsValue(ds) ==
    IF ds = <<>> THEN 0
    ELSE 10 * digitsValue(SubSeq(ds, 1, Len(ds) - 1)) + DigitValue(ds[Len(ds)])
\* parseFloat(str): the decimal literal str starts with, in hundredths, or
\* NaN when it starts with none
parseFloat(str) ==
    LET whole == leadingDigits(str)
        rest == SubSeq(str, Len(whole) + 1, Len(str))
        frac == IF rest # <<>> /\ Head(rest) = "."
                THEN leadingDigits(Tail(rest)) ELSE <<>>
        frac2 == SubSeq(frac \o <<"0", "0">>, 1, 2)
    IN IF whole = <<>> /\ frac = <<>>
       THEN [nan |-> TRUE, value |-> 0]
       ELSE [nan |-> FALSE,
             value |-> 100 * digitsValue(whole) + digitsValue(frac2)]
\* `x || 0` for a number x: NaN and 0 are falsy
orZero(x) == IF x.nan \/ x.value = 0 THEN 0 ELSE x.value

\* e.target.value of a rate field: empty (also what the field gives for text
\* that is no number), "0", "2", ".5"
RateInputs == {<<>>, <<"0">>, <<"2">>, <<".", "5">>}

\* faulty variant: the other entries are not copied
setRateAlone(rates, code, str) ==
    [k \in {code} |-> orZero(parseFloat(str))]
\* { ...rates, [code]: parseFloat(str) || 0 }, lines 1192-1195 and 686-689
setRate(rates, code, str) ==
    [k \in DOMAIN rates \cup {code} |->
        IF k = code THEN orZero(parseFloat(str)) ELSE rates[k]]

\* the body of the save request, line 1147
saveBody(rates) == [rates |-> rates]

\* onChange of a rate field of SettingsView, lines 1192-1195
SettingsRateChange(code, str) ==
    /\ rateEdits < MaxRateEdits
    /\ exchangeRates' = setRate(exchangeRates, code, str)
    /\ rateEdits' = rateEdits + 1
    /\ rateLast' = [op |-> "rateChange", inp |-> <<code, str>>,
                    pre |-> exchangeRates, sent |-> <<>>]
    /\ UNCHANGED <<saved, savePending, savedTimers, formData>>
    /\ UNCHANGED <<authVars, formVars, fnVars, viewVars>>

\* handleSave up to its await, lines 1145-1147; the button is never disabled
HandleSave ==
    /\ savePending + savedTimers < MaxSaves
    /\ savePending' = savePending + 1
    /\ rateLast' = [op |-> "handleSave", inp |-> Null, pre |-> exchangeRates,
                    sent |-> <<saveBody(exchangeRates)>>]
    /\ UNCHANGED <<exchangeRates, saved, savedTimers, formData, rateEdits>>
    /\ UNCHANGED <<authVars, formVars, fnVars, viewVars>>

\* the save settled: lines 1148-1149, or the catch block, lines 1150-1153
SaveSettled(ok) ==
    /\ savePending > 0
    /\ savePending' = savePending - 1
    /\ IF ok
       THEN saved' = TRUE /\ savedTimers' = savedTimers + 1
       ELSE UNCHANGED <<saved, savedTimers>>
    /\ rateLast' = [op |-> IF ok THEN "saveDone" ELSE "saveFailed",
                    inp |-> Null, pre |-> exchangeRates, sent |-> <<>>]
    /\ UNCHANGED <<exchangeRates, formData, rateEdits>>
    /\ UNCHANGED <<authVars, formVars, fnVars, viewVars>>

\* a timeout of line 1149 fires
SavedTimeout ==
    /\ savedTimers > 0
    /\ savedTimers' = savedTimers - 1
    /\ saved' = FALSE
    /\ rateLast' = [op |-> "savedTimeout", inp |-> Null,
                    pre |-> exchangeRates, sent |-> <<>>]
    /\ UNCHANGED <<exchangeRates, savePending, formData, rateEdits>>
    /\ UNCHANGED <<authVars, formVars, fnVars, viewVars>>

InitSettings ==
    /\ exchangeRates = DefaultRates /\ saved = FALSE /\ savePending = 0
    /\ savedTimers = 0 /\ formData = [exchangeRates |-> DefaultRates]
    /\ rateEdits = 0
    /\ rateLast = [op |-> "init", inp |-> Null, pre |-> DefaultRates,
                   sent |-> <<>>]
    /\ AuthIdle /\ FormIdle /\ FnIdle /\ ViewIdle

NextSettings ==
    \/ \E code \in Codes, str \in RateInputs : SettingsRateChange(code, str)
    \/ HandleSave
    \/ \E ok \in BOOLEAN : SaveSettled(ok)
    \/ SavedTimeout

SpecSettings == InitSettings /\ [][NextSettings]_vars

\* ---- the rate fields of ProductForm
\* product?.exchangeRates of the product being edited: none (a new product,
\* or a record without the field), or a table that lacks some of the codes
ProductRates ==
    {[present |-> FALSE, rates |-> DefaultRates],
     [present |-> TRUE, rates |-> DefaultRates],
     [present |-> TRUE, rates |-> [c \in Codes \ {"GBP"} |-> DefaultRates[c]]],
     [present |-> TRUE, rates |-> [c \in {"USD"} |-> 100]]}

\* product?.exchangeRates || { USD: 1, ... }, lines 497-508
initialExchangeRates(p) == IF p.present THEN p.rates ELSE DefaultRates

\* value={formData.exchangeRates[currency] || 0}, line 868: what the field
\* of a currency shows
rateFieldValue(rates, currency) ==
    IF currency \in DOMAIN rates /\ rates[currency] # 0 THEN rates[currency]
    ELSE 0

\* updateExchangeRate, lines 683-691
UpdateExchangeRate(currency, str) ==
    /\ rateEdits < MaxRateEdits
    /\ formData' = [formData EXCEPT
                      !.exchangeRates = setRate(@, currency, str)]
    /\ rateEdits' = rateEdits + 1
    /\ rateLast' = [op |-> "updateExchangeRate", inp |-> <<currency, str>>,
                    pre |-> formData.exchangeRates, sent |-> <<>>]
    /\ UNCHANGED <<exchangeRates, saved, savePending, savedTimers>>
    /\ UNCHANGED <<authVars, formVars, fnVars, viewVars>>

\* the exchangeRates of handleSubmit's payload, `...formData` of line 661
SubmitRates ==
    /\ rateLast' = [op |-> "submit", inp |-> Null,
                    pre |-> formData.exchangeRates,
                    sent |-> <<formData.exchangeRates>>]
    /\ UNCHANGED <<exchangeRates, saved, savePending, savedTimers, formData,
                   rateEdits>>
    /\ UNCHANGED <<authVars, formVars, fnVars, viewVars>>

InitRates ==
    /\ \E p \in ProductRates :
          formData = [exchangeRates |-> initialExchangeRates(p)]
    /\ exchangeRates = DefaultRates /\ saved = FALSE /\ savePending = 0
    /\ savedTimers = 0 /\ rateEdits = 0
    /\ rateLast = [op |-> "init", inp |-> Null,
                   pre |-> formData.exchangeRates, sent |-> <<>>]
    /\ AuthIdle /\ FormIdle /\ FnIdle /\ ViewIdle

NextRates ==
    \/ \E currency \in Codes, str \in RateInputs :
          UpdateExchangeRate(currency, str)
    \/ SubmitRates

SpecRates == InitRates /\ [][NextRates]_vars

\* C7: the image list of the product form holds no duplicate in any reachable
\* state: from a duplicate-free or empty list, after any sequence of
\* add-from-URL, add-from-files, replace, remove and reorder, no two
\* positions hold the same value.
C7_NoDuplicateImages == NoDuplicates(images)

\* C11: replace-at-index changes only the entry at the index chosen when
\* the picker was opened: after a successful replace the list has the same
\* length, every other position holds the value it held, and the chosen
\* position holds the new image; when no file is chosen, the file is not an
\* image or the read fails, the image list is unchanged.
C11_ReplaceOnlyChosenIndex ==
    /\ formLast.op = "replaceDone" =>
          LET index == formLast.inp[1]
              newImage == formLast.inp[2]
              pre == formLast.pre
          IN /\ Len(images) = Len(pre)
             /\ \A k \in 1..Len(pre) : k - 1 # index => images[k] = pre[k]
             /\ index < Len(images)
             /\ images[index + 1] = newImage
    /\ formLast.op \in {"cancelReplacePicker", "handleReplaceImageUpload",
                        "replaceFailed"} => images = formLast.pre

\* C23: a replace is applied to the entry the operator selected, also when
\* a remove, a reorder or an add changes the list between the opening of the
\* picker and the end of the read: the entry that was at the selected
\* position, if it is still in the list, is the one that becomes the new
\* image, and no other entry changes.
C23_ReplaceFollowsEntry ==
    formLast.op = "replaceDone" =>
       LET pre == formLast.pre
           newImage == formLast.inp[2]
           target == formLast.inp[3]
       IN /\ Len(images) = Len(pre)
          /\ \A k \in 1..Len(pre) : images[k] # pre[k] => pre[k] = target
          /\ target \in Range(pre) =>
                \E k \in 1..Len(pre) : pre[k] = target /\ images[k] = newImage

\* C12: add-from-local-files is all-or-nothing: a selection with a file
\* that is not an image starts no read, leaves the list unchanged and sets
\* the one message 'Only image files are allowed.'; a failed read leaves the
\* list unchanged and sets the one message 'Unable to process one or more
\* files.'; only a selection of images whose reads all succeeded is merged,
\* and then the list is the old list followed by the new images.
C12_UploadAllOrNothing ==
    /\ \A k \in 1..Len(reads) :
          \A i \in 1..Len(reads[k].files) : IsImage(reads[k].files[i])
    /\ formLast.op = "handleLocalImageUpload" =>
          /\ images = formLast.pre
          /\ (\E i \in 1..Len(formLast.inp) : ~IsImage(formLast.inp[i]))
                => imageUploadError = OnlyImagesMsg
    /\ formLast.op = "uploadFailed" =>
          /\ images = formLast.pre
          /\ imageUploadError = UnableToProcessMsg
    /\ formLast.op = "uploadDone" =>
          LET pre == formLast.pre
              data == {formLast.inp[i].data : i \in 1..Len(formLast.inp)}
          IN /\ \A i \in 1..Len(formLast.inp) : IsImage(formLast.inp[i])
             /\ Len(images) >= Len(pre)
             /\ SubSeq(images, 1, Len(pre)) = pre
             /\ Range(images) = Range(pre) \cup data
             /\ imageUploadError = ""
    /\ images # formLast.pre =>
          formLast.op \notin {"handleLocalImageUpload", "uploadFailed"}

\* a selection of two images of which one read failed, made while the list
\* held an image and an earlier message had been cleared
C12_Witness ==
    /\ formLast.op = "uploadFailed" /\ Len(formLast.inp) = 2
    /\ formLast.inp[1].data # formLast.inp[2].data
    /\ images = formLast.pre /\ images # <<>>
    /\ imageUploadError = UnableToProcessMsg

\* --------------------------------------------------- list view properties

\* C13 as stated: after every successful create, update or delete the view
\* is Loading again (its loading flag is true) until the reload settles, and
\* a reload that succeeds shows the fetched items.
C13_MutationReentersLoading ==
    /\ viewLast.op \in {"saveSuccess", "deleteSuccess"} => viewLoading
    /\ viewLast.op = "loadSuccess" =>
          /\ ~viewLoading
          /\ records = IF viewLast.inp = Null THEN <<>> ELSE viewLast.inp

\* C13 amended: the view is Loading only from its mount until the first
\* fetch settles; after every successful create, update or delete exactly
\* one reload is sent while the loading flag stays false and the items shown
\* stay as they were, and a reload that succeeds shows the fetched items.
C13_ReloadAfterWrite ==
    /\ viewLoading <=> viewLast.op \in {"init", "viewMount"}
    /\ viewLast.op \in {"saveSuccess", "deleteSuccess"} =>
          /\ Len(viewLast.issued) = 1
          /\ viewLast.issued[1].kind = "get"
          /\ viewLast.issued[1] \in Range(net)
          /\ ~viewLoading
          /\ records = viewLast.pre.records
    /\ viewLast.op = "loadSuccess" =>
          /\ ~viewLoading
          /\ records = IF viewLast.inp = Null THEN <<>> ELSE viewLast.inp

\* a reload replaced a list that was shown by another one
C13_Witness ==
    /\ viewLast.op = "loadSuccess" /\ ~viewLast.pre.viewLoading
    /\ viewLast.pre.records = <<"a", "b">> /\ records = <<"a">>

\* C14: a failed list fetch, on mount or on reload, leaves the view Loaded
\* with an empty collection: loading is false, the items are the empty list
\* whatever was shown before, and nothing else tells the failure (no notice
\* is shown, no request is sent).
C14_FailedFetchShowsEmpty ==
    viewLast.op = "loadFailure" =>
       /\ ~viewLoading
       /\ records = <<>>
       /\ viewLast.notice = ""
       /\ viewLast.issued = <<>>

\* a reload failed while a list was shown
C14_Witness ==
    /\ viewLast.op = "loadFailure" /\ ~viewLast.pre.viewLoading
    /\ viewLast.pre.records # <<>> /\ records = <<>>

\* the generic message of a failed save
GenericSaveMsg(v) ==
    IF v = "products" THEN ErrorSavingProductMsg ELSE ErrorSavingCategoryMsg

\* C15: for both forms, a failed create/update leaves the modal open, sends
\* no reload and shows the server's message when there is one and a generic
\* one otherwise; a successful one sends the parent's reload and closes the
\* modal (ProductForm once the reload it awaits has settled).
C15_SaveOutcome ==
    /\ viewLast.op = "saveFailure" =>
          /\ showForm = viewLast.pre.showForm
          /\ editing = viewLast.pre.editing
          /\ viewLast.issued = <<>>
          /\ viewLast.inp[1] = "live" =>
                LET msg == viewLast.inp[2]
                    shown == IF view = "products" THEN saveError
                             ELSE viewLast.notice
                IN shown = IF msg = Null \/ msg = "" THEN GenericSaveMsg(view)
                           ELSE msg
    /\ viewLast.op = "saveSuccess" =>
          /\ Len(viewLast.issued) = 1
          /\ viewLast.issued[1].kind = "get"
          /\ ~showForm \/ viewLast.issued[1].form # "none"
    /\ viewLast.op \in {"loadSuccess", "loadFailure"}
          /\ showForm # viewLast.pre.showForm => ~showForm

\* C16: a DELETE is sent only from a handler in which window.confirm
\* answered yes, and for the item whose button was clicked; the reload of a
\* delete is sent by the continuation of a DELETE that succeeded, and by no
\* other step of the delete.
C16_DeleteNeedsConfirmation ==
    /\ \A i \in 1..Len(net) : net[i].kind = "delete" => net[i].confirmed
    /\ viewLast.op = "deleteClick" =>
          LET id == viewLast.inp[1]
              answer == viewLast.inp[2]
          IN /\ ~answer => viewLast.issued = <<>>
             /\ answer =>
                   /\ Len(viewLast.issued) = 1
                   /\ viewLast.issued[1].kind = "delete"
                   /\ viewLast.issued[1].id = id
    /\ viewLast.op = "deleteFailure" => viewLast.issued = <<>>
    /\ viewLast.op = "deleteSuccess" =>
          /\ Len(viewLast.issued) = 1
          /\ viewLast.issued[1].kind = "get"

\* the operator declined to delete an item while a confirmed DELETE of
\* another one was in flight
C16_Witness ==
    /\ viewLast.op = "deleteClick" /\ viewLast.inp = <<"b", FALSE>>
    /\ \E i \in 1..Len(net) : net[i].kind = "delete" /\ net[i].id = "a"

\* C17: a failed delete changes nothing: neither the click with its
\* confirmation nor the failure changes the items shown, the loading flag or
\* the open-form state; the failure sends no request and shows the notice
\* 'Error deleting product' / 'Error deleting category'.
C17_FailedDeleteChangesNothing ==
    /\ viewLast.op = "deleteClick" => ViewState = viewLast.pre
    /\ viewLast.op = "deleteFailure" =>
          /\ ViewState = viewLast.pre
          /\ viewLast.issued = <<>>
          /\ viewLast.notice = IF view = "products"
                               THEN "Error deleting product"
                               ELSE "Error deleting category"

\* the DELETE of a category failed while the list was shown and a form had
\* been opened meanwhile
C17_Witness ==
    /\ viewLast.op = "deleteFailure" /\ view = "categories"
    /\ records # <<>> /\ showForm

\* C18: an open form has at most one create/update request in flight: while
\* one is pending the submit control is disabled, so that a second submit
\* event on the same form sends no second request.
C18_OneSaveInFlight ==
    LET pending == {i \in 1..Len(net) :
                       net[i].kind = "save" /\ net[i].form = "live"}
    IN /\ Cardinality(pending) <= 1
       /\ pending # {} => ~submitEnabled(view, saving)

\* C22: when several list requests of one view are in flight, a response
\* to an older request never replaces the result of a newer one, and once
\* all of them have settled the list shown is the result of the one sent
\* last, in whatever order the responses arrive.
C22_NewestFetchWins ==
    /\ viewLast.op \in {"loadSuccess", "loadFailure"} => ~viewLast.stale
    /\ (\A i \in 1..Len(net) : net[i].kind # "get") => ~viewLast.stale

\* --------------------------------------------------------- rate properties

\* C19: the table of the settings view always holds exactly the 10 codes
\* USD, GBP, EUR, INR, AED, AUD, CAD, JPY, CNY, SAR: a change of one field,
\* also to text that is no number (which gives 0), changes that code's rate
\* only and leaves the key set as it is, and a save sends one request whose
\* body is the whole table as it is then.
C19_TableKeepsTenCodes ==
    /\ DOMAIN exchangeRates = Codes
    /\ Cardinality(DOMAIN exchangeRates) = 10
    /\ rateLast.op = "rateChange" =>
          LET code == rateLast.inp[1]
              str == rateLast.inp[2]
          IN /\ \A c \in Codes \ {code} : exchangeRates[c] = rateLast.pre[c]
             /\ str = <<>> => exchangeRates[code] = 0
             /\ str = <<"2">> => exchangeRates[code] = 200
             /\ str = <<".", "5">> => exchangeRates[code] = 50
    /\ rateLast.op = "handleSave" =>
          /\ Len(rateLast.sent) = 1
          /\ DOMAIN rateLast.sent[1].rates = Codes
          /\ rateLast.sent[1].rates = exchangeRates

\* a table in which one rate was cleared and another set was saved
C19_Witness ==
    /\ rateLast.op = "handleSave"
    /\ exchangeRates["GBP"] = 0 /\ exchangeRates["INR"] = 50
    /\ rateLast.sent[1].rates["GBP"] = 0

\* C20: a currency code that the product's rate table lacks is shown as
\* unavailable: its field shows neither 0 nor 1.0, and the table submitted
\* holds neither 0 nor 1.0 for it unless the operator entered a rate.
C20_MissingRateUnavailable ==
    /\ \A c \in Codes \ DOMAIN formData.exchangeRates :
          rateFieldValue(formData.exchangeRates, c) \notin {0, 100}
    /\ rateLast.op = "submit" =>
          \A c \in Codes \ DOMAIN rateLast.pre :
             c \in DOMAIN rateLast.sent[1] =>
                rateLast.sent[1][c] \notin {0, 100}

\* ------------------------------------------------- list routine properties

\* position of the first occurrence of v in B (0 when absent)
FirstIndex(B, v) ==
    IF v \in Range(B) THEN CHOOSE i \in 1..Len(B) :
                              B[i] = v /\ \A k \in 1..(i - 1) : B[k] # v
    ELSE 0

\* T lists, once each and in the order of their first occurrence in B, the
\* values of B that are not in L
IsNewUniques(T, L, B) ==
    /\ NoDuplicates(T)
    /\ Range(T) = Range(B) \ Range(L)
    /\ \A a, b \in 1..Len(T) :
          a < b => FirstIndex(B, T[a]) < FirstIndex(B, T[b])

\* C6 as stated: for any list L and batch B, merge(L, B) has L as a prefix,
\* then the items of B not already in L in B's order, and no duplicates.
C6_MergeAsClaimed ==
    ran =>
       LET L == arg[1]
           B == arg[2]
       IN /\ Len(out) >= Len(L)
          /\ SubSeq(out, 1, Len(L)) = L
          /\ IsNewUniques(SubSeq(out, Len(L) + 1, Len(out)), L, B)
          /\ NoDuplicates(out)

\* C6 amended: merge(L, B) is L followed by the values of B that are not in
\* L, once each in the order of their first occurrence in B; it adds no
\* duplicate, so the result is duplicate-free exactly when L is.
C6_MergeAppendsNewUniques ==
    ran =>
       LET L == arg[1]
           B == arg[2]
       IN /\ Len(out) >= Len(L)
          /\ SubSeq(out, 1, Len(L)) = L
          /\ IsNewUniques(SubSeq(out, Len(L) + 1, Len(out)), L, B)
          /\ NoDuplicates(out) <=> NoDuplicates(L)

\* merge run on a duplicate-free list and a batch that repeats one of its
\* entries, repeats itself and brings something new: merge([x,y],[y,z,z]).
C6_Witness ==
    /\ ran /\ NoDuplicates(arg[1]) /\ ~NoDuplicates(arg[2])
    /\ Range(arg[1]) \cap Range(arg[2]) # {}
    /\ Len(out) > Len(arg[1])
    /\ arg[1] = <<<<"x">>, <<"y">>>> /\ out = <<<<"x">>, <<"y">>, <<"z">>>>

Count(L, v) == Cardinality({i \in 1..Len(L) : L[i] = v})
ValidIndex(L, i) == 0 <= i /\ i < Len(L)

\* C8: for valid distinct i, j, reorder(L, i, j) is a permutation of L of the
\* same length with the element that was at i now at j and the others in
\* their relative order; reorder(L, i, i) is L.
C8_ReorderMovesOne ==
    ran =>
       LET L == arg[1]
           i == arg[2]
           j == arg[3]
       IN /\ ValidIndex(L, i) /\ ValidIndex(L, j) /\ i # j =>
                /\ Len(out) = Len(L)
                /\ \A v \in Range(L) \cup Range(out) :
                      Count(out, v) = Count(L, v)
                /\ out[j + 1] = L[i + 1]
                /\ RemoveAt(out, j + 1) = RemoveAt(L, i + 1)
          /\ ValidIndex(L, i) /\ i = j => out = L

\* the first of three distinct images dragged to the last position
C8_Witness ==
    /\ ran /\ arg = <<<< <<"x">>, <<"y">>, <<"z">> >>, 0, 2>>
    /\ out = << <<"y">>, <<"z">>, <<"x">> >>

\* C9: reorder(L, i, j) with i or j not a valid position of L (negative, or
\* at least the length of L) leaves the list exactly as it was.
C9_InvalidIndexNoOp ==
    ran =>
       LET L == arg[1]
           i == arg[2]
           j == arg[3]
       IN ~(ValidIndex(L, i) /\ ValidIndex(L, j)) => out = L

\* C10: submission normalization is idempotent, yields no empty string and no
\* duplicate, keeps the first occurrence of each trimmed value in the
\* original relative order, maps ["x"," x","","y"] to ["x","y"], and the
\* payload's primary image is the first normalized entry, or '' if none.
C10_NormalizationIdempotent ==
    /\ normalizedImages(<< <<"x">>, <<" ", "x">>, <<>>, <<"y">> >>)
          = << <<"x">>, <<"y">> >>
    /\ ran =>
          LET n == out.images
              \* the input's entries as strings, trimmed
              t == [k \in 1..Len(arg) |->
                      IF arg[k] = Undefined THEN <<>>
                      ELSE CHOOSE w \in Strings :
                              /\ (w = <<>> \/ (w[1] # " " /\ w[Len(w)] # " "))
                              /\ \E a, b \in 0..Len(arg[k]) :
                                    /\ a + Len(w) + b = Len(arg[k])
                                    /\ \A q \in 1..a : arg[k][q] = " "
                                    /\ \A q \in 1..b :
                                          arg[k][a + Len(w) + q] = " "
                                    /\ SubSeq(arg[k], a + 1, a + Len(w)) = w]
          IN /\ normalizedImages(n) = n
             /\ <<>> \notin Range(n)
             /\ NoDuplicates(n)
             /\ Range(n) = Range(t) \ {<<>>}
             /\ \A a, b \in 1..Len(n) :
                   a < b => FirstIndex(t, n[a]) < FirstIndex(t, n[b])
             /\ out.image = IF n = <<>> THEN <<>> ELSE n[1]

\* a list with an untrimmed duplicate, an empty entry and an entry that is
\* not a string, whose first entry is dropped
C10_Witness ==
    /\ ran /\ Len(arg) = 3
    /\ arg[1] = <<" ">> /\ arg[2] = <<" ", "x">> /\ arg[3] = <<"x">>
    /\ out = [images |-> << <<"x">> >>, image |-> <<"x">>]


\* ------------------------------------------------------ session properties

\* C1: every request issued after a logout() and before the next successful
\* login() carries no Authorization header, and every request issued after a
\* successful login() and before the next logout() carries
\* 'Authorization: Bearer <token>' with the token that login returned.
\* (`at` is the session phase at the moment the request was sent.)
C1_HeaderFollowsSession ==
    \A i \in 1..Len(inflight) :
        LET r == inflight[i]
        IN /\ (r.at = <<"out">> => r.auth = Null)
           /\ (r.at[1] = "in" => r.auth = Bearer(r.at[2]))

\* A login sent after a logout is in flight together with a /auth/me sent
\* under a later or earlier successful login.
C1_Witness ==
    \E i, j \in 1..Len(inflight) :
        /\ inflight[i].kind = "login" /\ inflight[i].at = <<"out">>
        /\ inflight[j].kind = "me" /\ inflight[j].at[1] = "in"

\* C2: whenever GET /auth/me fails, the resulting session is exactly the one
\* an explicit logout() produces: user null, in-memory token null, persisted
\* token removed, default Authorization header absent.
C2_FetchFailureCollapses ==
    /\ last.op = "fetchUserFailure" =>
          /\ user = Null /\ token = Null
          /\ adminToken = Null /\ authHeader = Null
    /\ last.op = "logout" => Session = LoggedOut

\* /auth/me failed while a user was shown and the header was set.
C2_Witness ==
    /\ last.op = "fetchUserFailure"
    /\ last.pre.user # Null /\ last.pre.authHeader # Null
    /\ last.pre.adminToken # Null /\ last.pre.token # Null

\* C3: protected content is never rendered while loading is true: loading is
\* true from process start until no token is found or a first /auth/me has
\* settled, the Dashboard is rendered only when loading is false and user is
\* non-null, and the spinner is rendered whenever loading is true.
C3_NoDashboardWhileLoading ==
    /\ loading <=> ~resolved
    /\ View = "Dashboard" => ~loading /\ user # Null
    /\ loading => View = "spinner"
    /\ \A i \in 1..Len(inflight) : inflight[i].kind = "api" => resolved

\* Cold start with a persisted token: the first /auth/me succeeded and the
\* Dashboard is shown.
C3_Witness ==
    /\ last.op = "fetchUserSuccess" /\ last.pre.user = Null
    /\ phase = <<"boot">> /\ View = "Dashboard"

\* C4: a failed login issues exactly one request (the call's own; the failure
\* path sends none), returns failure with the server's message when there is
\* one and 'Login failed' otherwise (an absent or empty message is none), and
\* leaves user, token, persisted token and default header unchanged.
C4_FailedLoginChangesNothing ==
    /\ last.op = "loginSubmit" => last.issued = 1
    /\ last.op = "loginFailure" =>
          /\ last.issued = 0
          /\ last.ret.success = FALSE
          /\ last.inp \in {Null, ""} => last.ret.message = "Login failed"
          /\ last.inp \notin {Null, ""} => last.ret.message = last.inp
          /\ Session = last.pre

\* A login failed with a server message while a session was live.
C4_Witness ==
    /\ last.op = "loginFailure" /\ last.inp = "Invalid credentials"
    /\ last.pre.user # Null /\ last.pre.authHeader # Null

\* C5: logout() is idempotent and makes no network call: wherever it runs
\* (the button, or fetchUser's catch block, also on a session that is logged
\* out already) the session afterwards has no persisted token, no header, no
\* token and no user, a second logout() changes nothing, and no request is
\* sent.
C5_LogoutIdempotent ==
    /\ last.op \in {"logout", "fetchUserFailure"} =>
          /\ Session = LoggedOut
          /\ last.issued = 0
    /\ logout(Session) = LoggedOut
    /\ logout(logout(Session)) = logout(Session)

\* logout() ran on a session that an earlier logout() had already cleared.
C5_Witness ==
    /\ last.op = "fetchUserFailure" /\ last.pre = LoggedOut
    /\ Session = LoggedOut

\* C21: a non-null user implies a live session: whenever user is non-null
\* the in-memory token is non-null, the token is persisted and the
\* Authorization header is set; in particular a /auth/me that succeeds after
\* a logout() leaves user null.
C21_UserImpliesLiveSession ==
    /\ user # Null =>
          token # Null /\ adminToken # Null /\ authHeader # Null
    /\ last.op = "fetchUserSuccess" /\ last.pre.token = Null => user = Null

====
